---- MODULE Spec2Model ----
(***************************************************************************)
(* Model of src/channel.py: the Stream snapshot and the Channel state      *)
(* machine (reconciliation, debounced online/offline transitions, spade    *)
(* URL discovery and watch pings) of one Channel under asyncio's           *)
(* single-threaded cooperative scheduling.  Every await of the source is   *)
(* a suspension point; the code between two awaits is one atomic action.   *)
(***************************************************************************)
EXTENDS Integers, Sequences, FiniteSets, TLC

(* ------------------------------ bounds --------------------------------- *)
\* _online_delay tasks that exist at once (unfinished, or finished and still
\* referred to by the channel)
MaxTasks == 2
\* calls of the scheduler (get_stream, check_online, _send_watch) in flight at once
MaxCalls == 2

(* --------------------------- Python values ----------------------------- *)
None == [kind |-> "None"]
IntV(n) == [t |-> "int", n |-> n]
StrV(s) == [t |-> "str", s |-> s]

\* value of a string of decimal digits, most significant digit first
RECURSIVE DigitsToNat(_)
DigitsToNat(s) ==
    IF s = <<>> THEN 0
    ELSE 10 * DigitsToNat(SubSeq(s, 1, Len(s) - 1)) + s[Len(s)]

\* Python's int(): the identity on an int, the parsed value of a str
int(v) == IF v.t = "int" THEN v.n ELSE DigitsToNat(v.s)

(* ------------------------------ inputs --------------------------------- *)
DROPS_ENABLED_TAG == "c2542d6d-cd10-4532-919b-3d19f30a768b"
OtherTag == "6ea6bca4-4712-4ab9-a906-e3336a9d8039"
Tag(i) == [id |-> i]
GameData == [id |-> StrV(<<5>>), name |-> "game"]

\* data["user"] of a GetStreamInfo response: a channel that is live, and one
\* that is not
UserLive ==
    [id |-> StrV(<<1, 2>>),
     stream |-> [id |-> StrV(<<4, 5>>), viewersCount |-> 3,
                 tags |-> <<Tag(OtherTag), Tag(DROPS_ENABLED_TAG)>>],
     broadcastSettings |-> [game |-> GameData, title |-> "title"]]
UserOffline ==
    [id |-> StrV(<<1, 2>>),
     stream |-> None,
     broadcastSettings |-> [game |-> None, title |-> "title"]]

\* what gql_request can hand back: an empty (falsy) response, an exception,
\* a response whose user is null (no such channel), or a response with a user
RespEmpty == [kind |-> "empty"]
RespRaise == [kind |-> "raise"]
RespJson(u) == [kind |-> "json", data |-> [user |-> u]]
GqlResponses ==
    {RespEmpty, RespRaise, RespJson(None),
     RespJson(UserOffline), RespJson(UserLive)}

\* a directory listing entry, the input of Channel.from_directory
DirectoryRecords ==
    {[broadcaster |-> [id |-> StrV(<<3, 4>>), displayName |-> "chan"],
      id |-> StrV(<<0, 4, 6>>), viewersCount |-> 0,
      tags |-> <<Tag(OtherTag)>>,
      game |-> GameData, title |-> ""]}

(* ------------------------ pages and scripts ---------------------------- *)
\* A text is the sequence of its places where a pattern could match; a place
\* holds the parts the pattern looks at and the text of its URL.
\* re.I: the letters of the patterns match in either case
Lower(w) ==
    CASE w = "SRC" -> "src"
      [] w = "SPADE_URL" -> "spade_url"
      [] OTHER -> w

SettingsA == [host |-> "static.twitchcdn.net", hexlen |-> 32, ext |-> "js", rev |-> "a"]
SettingsB == [host |-> "static.twitchcdn.net", hexlen |-> 32, ext |-> "js", rev |-> "b"]
SettingsShort == [host |-> "static.twitchcdn.net", hexlen |-> 31, ext |-> "js", rev |-> "c"]
\* the streamer page: no script tag, a script whose name is one hex digit
\* short, the settings script, or both of these
Pages ==
    {<<>>,
     <<[attr |-> "src", url |-> SettingsShort]>>,
     <<[attr |-> "src", url |-> SettingsA]>>,
     <<[attr |-> "src", url |-> SettingsShort], [attr |-> "SRC", url |-> SettingsB]>>}

SpadeA == [prefix |-> "https://video-edge-", ext |-> "ts", rev |-> "a"]
SpadeB == [prefix |-> "https://video-edge-", ext |-> "ts", rev |-> "b"]
SpadeOther == [prefix |-> "https://video-weaver-", ext |-> "ts", rev |-> "c"]
\* the settings script: no assignment, a beacon_url only, a spade_url, or a
\* beacon_url followed by another spade_url
Scripts ==
    {<<>>,
     <<[key |-> "beacon_url", sep |-> "", url |-> SpadeOther]>>,
     <<[key |-> "spade_url", sep |-> "", url |-> SpadeA]>>,
     <<[key |-> "beacon_url", sep |-> "", url |-> SpadeOther],
       [key |-> "SPADE_URL", sep |-> " ", url |-> SpadeB]>>}

\* what a fetch can hand back: a text, or a transport failure
FetchRaise == [kind |-> "raise"]
Text(body) == [kind |-> "text", body |-> body]
\* the status of the response to a POST
Statuses == {204, 200}
Status(n) == [kind |-> "status", code |-> n]

\* the user id of the client (Twitch._user_id)
UserId == 789

\* bool(response) of a gql_request result
Truthy(r) == r.kind = "json"

(* ------------------------------ Stream --------------------------------- *)
\* inventory.Game: a value built from the game data
Game(d) == [kind |-> "Game", data |-> d]

\* Stream.__init__ (the wall-clock _timestamp is left out)
Stream(data) ==
    LET s == data.stream
        settings == data.broadcastSettings
    IN  [kind |-> "Stream",
         broadcast_id |-> IntV(int(s.id)),
         viewer_count |-> s.viewersCount,
         drops_enabled |-> \E i \in 1..Len(s.tags) : s.tags[i].id = DROPS_ENABLED_TAG,
         game |-> IF settings.game # None THEN Game(settings.game) ELSE None,
         title |-> settings.title]

\* Stream.from_directory with all() where the source has any()
Stream_from_directory_all(data) ==
    [kind |-> "Stream",
     broadcast_id |-> data.id,
     viewer_count |-> data.viewersCount,
     drops_enabled |-> \A i \in 1..Len(data.tags) : data.tags[i].id = DROPS_ENABLED_TAG,
     game |-> Game(data.game),
     title |-> data.title]

\* Stream.from_directory
Stream_from_directory(data) ==
    [kind |-> "Stream",
     broadcast_id |-> data.id,
     viewer_count |-> data.viewersCount,
     drops_enabled |-> \E i \in 1..Len(data.tags) : data.tags[i].id = DROPS_ENABLED_TAG,
     game |-> Game(data.game),
     title |-> data.title]

(* ------------------------------- state --------------------------------- *)
VARIABLES
    ctor,        \* "init": inside Channel.__init__; "ready"; "failed": __init__ raised
    id,          \* Channel.id
    name,        \* Channel.name
    user_id,     \* Twitch._user_id of the client the channel belongs to
    stream,      \* Channel.stream: None or a Stream
    spade_url,   \* Channel._spade_url: None or a URL
    pending,     \* Channel._pending_stream_up: NoTask or a task
    tasks,       \* the state of each _online_delay task
    calls,       \* how many coroutines started by the scheduler are suspended where
    preempted,   \* history: for each task, where set_offline() cancelled it
    ret          \* history: what the last step did

vars == <<ctor, id, name, user_id, stream, spade_url, pending, tasks, calls, preempted, ret>>

\* _pending_stream_up = None
NoTask == 0
Tasks == 1..MaxTasks
\* the awaits a coroutine started by the scheduler can be suspended in
Awaits ==
    {"get_stream:gql", "check_online:gql",
     "_send_watch:page", "_send_watch:script", "_send_watch:post"}

\* Task states: "none" not created; "new" created, first step not run;
\* "sleep" suspended in asyncio.sleep; "query" suspended in gql_request;
\* "cancelling" cancel() requested, CancelledError not yet delivered;
\* "cancelled", "done" (returned), "failed" (raised)
Unfinished == {"new", "sleep", "query"}
Finished == {"cancelled", "done", "failed"}

\* a finished task that the channel does not refer to is gone: ts without
\* the finished tasks other than p
Collect(ts, p) ==
    [t \in Tasks |-> IF ts[t] \in Finished /\ t # p THEN "none" ELSE ts[t]]

\* Channel.online
online == stream # None
\* Channel.pending_online
pending_online == pending # NoTask

\* the record kept of the last step
R(op, who, step, io, resp, result, exc, info) ==
    [op |-> op, who |-> who, step |-> step, io |-> io, req |-> [kind |-> "none"],
     resp |-> resp, result |-> result, exc |-> exc, info |-> info]
NoResp == [kind |-> "none"]
NoReturn == [kind |-> "noreturn"]
BoolV(b) == [kind |-> "bool", b |-> b]

\* the coroutines of the scheduler that are suspended
InFlight ==
    calls["get_stream:gql"] + calls["check_online:gql"] + calls["_send_watch:page"]
        + calls["_send_watch:script"] + calls["_send_watch:post"]
\* a coroutine suspends in a / resumes from a
Suspend(a) == [calls EXCEPT ![a] = @ + 1]
Resume(a) == [calls EXCEPT ![a] = @ - 1]
\* a coroutine suspended in a goes on to suspend in b
Move(a, b) == [calls EXCEPT ![a] = @ - 1, ![b] = @ + 1]

(* --------------------------- get_stream -------------------------------- *)
\* get_stream that fills in the id only while it is still the placeholder
get_stream_id_once(r) ==
    IF r.kind = "raise"
    THEN [exc |-> "RequestError", id |-> id, stream |-> stream, result |-> NoReturn]
    ELSE IF Truthy(r)
    THEN LET stream_data == r.data.user IN
         IF stream_data = None
         THEN [exc |-> "TypeError", id |-> id, stream |-> stream, result |-> NoReturn]
         ELSE LET s == IF stream_data.stream # None THEN Stream(stream_data) ELSE None
              IN  [exc |-> "none", id |-> IF id = 0 THEN int(stream_data.id) ELSE id,
                   stream |-> s, result |-> s]
    ELSE [exc |-> "none", id |-> id, stream |-> stream, result |-> stream]

\* get_stream that leaves Channel.id as it is
get_stream_keeps_id(r) ==
    IF r.kind = "raise"
    THEN [exc |-> "RequestError", id |-> id, stream |-> stream, result |-> NoReturn]
    ELSE IF Truthy(r)
    THEN LET stream_data == r.data.user IN
         IF stream_data = None
         THEN [exc |-> "TypeError", id |-> id, stream |-> stream, result |-> NoReturn]
         ELSE LET s == IF stream_data.stream # None THEN Stream(stream_data) ELSE None
              IN  [exc |-> "none", id |-> id, stream |-> s, result |-> s]
    ELSE [exc |-> "none", id |-> id, stream |-> stream, result |-> stream]

\* get_stream that takes an empty response for a channel without a stream
get_stream_empty_is_offline(r) ==
    IF r.kind = "raise"
    THEN [exc |-> "RequestError", id |-> id, stream |-> stream, result |-> NoReturn]
    ELSE IF Truthy(r)
    THEN LET stream_data == r.data.user IN
         IF stream_data = None
         THEN [exc |-> "TypeError", id |-> id, stream |-> stream, result |-> NoReturn]
         ELSE LET s == IF stream_data.stream # None THEN Stream(stream_data) ELSE None
              IN  [exc |-> "none", id |-> int(stream_data.id), stream |-> s, result |-> s]
    ELSE [exc |-> "none", id |-> id, stream |-> None, result |-> None]

\* Channel.get_stream from the point where gql_request hands back r:
\* the exception raised (if any), the new id and stream, the value returned
get_stream(r) ==
    IF r.kind = "raise"
    THEN [exc |-> "RequestError", id |-> id, stream |-> stream, result |-> NoReturn]
    ELSE IF Truthy(r)
    THEN LET stream_data == r.data.user IN
         IF stream_data = None
         THEN \* None["id"]
              [exc |-> "TypeError", id |-> id, stream |-> stream, result |-> NoReturn]
         ELSE LET s == IF stream_data.stream # None THEN Stream(stream_data) ELSE None
              IN  [exc |-> "none", id |-> int(stream_data.id), stream |-> s, result |-> s]
    ELSE [exc |-> "none", id |-> id, stream |-> stream, result |-> stream]

(* --------------------------- construction ------------------------------ *)
\* Channel.__init__ up to its await of get_stream
Channel_init ==
    /\ ctor = "init"
    /\ id = 0
    /\ name = "chan"
    /\ spade_url = None
    /\ stream = None
    /\ pending = NoTask
    /\ ret = R("__init__", 0, "call", "gql", NoResp, NoReturn, "none", "none")

\* Channel.from_directory
Channel_from_directory(data) ==
    /\ ctor = "ready"
    /\ id = int(data.broadcaster.id)
    /\ name = data.broadcaster.displayName
    /\ spade_url = None
    /\ stream = Stream_from_directory(data)
    /\ pending = NoTask
    /\ ret = R("from_directory", 0, "call", "none", data, NoReturn, "none", "none")

Init ==
    /\ tasks = [t \in Tasks |-> "none"]
    /\ calls = [a \in Awaits |-> 0]
    /\ preempted = [t \in Tasks |-> "no"]
    /\ user_id = UserId
    /\ \/ Channel_init
       \/ \E data \in DirectoryRecords : Channel_from_directory(data)

\* Channel.__init__: get_stream returns or raises; the instance exists only
\* once it has returned
Channel_init_resume ==
    /\ ctor = "init"
    /\ \E r \in GqlResponses :
        LET o == get_stream(r) IN
        /\ ctor' = IF o.exc = "none" THEN "ready" ELSE "failed"
        /\ id' = o.id
        /\ stream' = o.stream
        /\ ret' = R("__init__", 0, "resume", "none", r, o.result, o.exc, "none")
    /\ UNCHANGED <<name, user_id, spade_url, pending, tasks, calls, preempted>>

(* --------------------- set_online / set_offline ------------------------ *)
\* the task asyncio.create_task makes next
FreeTask == IF \E t \in Tasks : tasks[t] = "none"
            THEN CHOOSE t \in Tasks : tasks[t] = "none" /\ \A u \in 1..(t - 1) : tasks[u] # "none"
            ELSE NoTask

\* set_online that looks at online only
set_online_unguarded ==
    /\ ctor = "ready"
    /\ IF online
       THEN /\ UNCHANGED <<pending, tasks>>
            /\ ret' = R("set_online", 0, "call", "none", NoResp, NoReturn, "none", "noop")
       ELSE /\ FreeTask # NoTask
            /\ tasks' = [tasks EXCEPT ![FreeTask] = "new"]
            /\ pending' = FreeTask
            /\ ret' = R("set_online", 0, "call", "none", NoResp, NoReturn, "none", "created")
    /\ UNCHANGED <<ctor, id, name, user_id, stream, spade_url, calls, preempted>>

\* Channel.set_online
set_online ==
    /\ ctor = "ready"
    /\ IF online \/ pending_online
       THEN /\ UNCHANGED <<pending, tasks>>
            /\ ret' = R("set_online", 0, "call", "none", NoResp, NoReturn, "none", "noop")
       ELSE /\ FreeTask # NoTask
            /\ tasks' = [tasks EXCEPT ![FreeTask] = "new"]
            /\ pending' = FreeTask
            /\ ret' = R("set_online", 0, "call", "none", NoResp, NoReturn, "none", "created")
    /\ UNCHANGED <<ctor, id, name, user_id, stream, spade_url, calls, preempted>>

\* a cancel() that has no effect
cancel_ignored(t) == tasks

\* Task.cancel(): on a task that has not finished, CancelledError is thrown
\* into the coroutine at its next step; on a finished task it does nothing
cancel(t) ==
    IF tasks[t] \in Unfinished THEN [tasks EXCEPT ![t] = "cancelling"] ELSE tasks

\* set_offline that returns after cancelling the task
set_offline_returns_early ==
    /\ ctor = "ready"
    /\ IF pending # NoTask
       THEN /\ tasks' = Collect(cancel(pending), NoTask)
            /\ pending' = NoTask
            /\ preempted' = IF tasks[pending] \in Unfinished
                            THEN [preempted EXCEPT ![pending] = tasks[pending]]
                            ELSE preempted
            /\ ret' = R("set_offline", 0, "call", "none", NoResp, NoReturn, "none",
                        tasks[pending])
            /\ stream' = stream
       ELSE /\ UNCHANGED <<tasks, pending, preempted>>
            /\ ret' = R("set_offline", 0, "call", "none", NoResp, NoReturn, "none", "none")
            /\ stream' = None
    /\ UNCHANGED <<ctor, id, name, user_id, spade_url, calls>>

\* Channel.set_offline
set_offline ==
    /\ ctor = "ready"
    /\ IF pending # NoTask
       THEN /\ tasks' = Collect(cancel(pending), NoTask)
            /\ pending' = NoTask
            /\ preempted' = IF tasks[pending] \in Unfinished
                            THEN [preempted EXCEPT ![pending] = tasks[pending]]
                            ELSE preempted
            /\ ret' = R("set_offline", 0, "call", "none", NoResp, NoReturn, "none",
                        tasks[pending])
       ELSE /\ UNCHANGED <<tasks, pending, preempted>>
            /\ ret' = R("set_offline", 0, "call", "none", NoResp, NoReturn, "none", "none")
    /\ stream' = None
    /\ UNCHANGED <<ctor, id, name, user_id, spade_url, calls>>

(* --------------------------- _online_delay ----------------------------- *)
\* the task's first step: runs to the await of asyncio.sleep
online_delay_start(t) ==
    /\ tasks[t] = "new"
    /\ tasks' = [tasks EXCEPT ![t] = "sleep"]
    /\ ret' = R("_online_delay", t, "start", "sleep", NoResp, NoReturn, "none", "none")
    /\ UNCHANGED <<ctor, id, name, user_id, stream, spade_url, pending, calls, preempted>>

\* the sleep is over: get_stream is called and suspends in gql_request
online_delay_wake(t) ==
    /\ tasks[t] = "sleep"
    /\ tasks' = [tasks EXCEPT ![t] = "query"]
    /\ ret' = R("_online_delay", t, "wake", "gql", NoResp, NoReturn, "none", "none")
    /\ UNCHANGED <<ctor, id, name, user_id, stream, spade_url, pending, calls, preempted>>

\* gql_request hands back r: get_stream finishes and, unless it raised,
\* the pending-task reference is cleared
online_delay_resume(t) ==
    /\ tasks[t] = "query"
    /\ \E r \in GqlResponses :
        LET o == get_stream(r) IN
        /\ id' = o.id
        /\ stream' = o.stream
        /\ IF o.exc = "none"
           THEN /\ pending' = NoTask
                /\ tasks' = Collect([tasks EXCEPT ![t] = "done"], NoTask)
           ELSE /\ pending' = pending
                /\ tasks' = Collect([tasks EXCEPT ![t] = "failed"], pending)
        /\ ret' = R("_online_delay", t, "resume", "none", r, o.result, o.exc, "none")
    /\ preempted' = [preempted EXCEPT ![t] = "no"]
    /\ UNCHANGED <<ctor, name, user_id, spade_url, calls>>

\* CancelledError is delivered at the await the task is suspended in
online_delay_cancelled(t) ==
    /\ tasks[t] = "cancelling"
    /\ tasks' = Collect([tasks EXCEPT ![t] = "cancelled"], pending)
    /\ preempted' = [preempted EXCEPT ![t] = "no"]
    /\ ret' = R("_online_delay", t, "cancelled", "none", NoResp, NoReturn,
                "CancelledError", preempted[t])
    /\ UNCHANGED <<ctor, id, name, user_id, stream, spade_url, pending, calls>>

(* ------------------- get_stream / check_online calls ------------------- *)
\* the scheduler calls get_stream(): it suspends in gql_request
get_stream_call ==
    /\ ctor = "ready"
    /\ InFlight < MaxCalls
    /\ calls' = Suspend("get_stream:gql")
    /\ ret' = R("get_stream", 0, "call", "gql", NoResp, NoReturn, "none", "none")
    /\ UNCHANGED <<ctor, id, name, user_id, stream, spade_url, pending, tasks, preempted>>

get_stream_resume ==
    /\ calls["get_stream:gql"] > 0
    /\ \E r \in GqlResponses :
        LET o == get_stream(r) IN
        /\ id' = o.id
        /\ stream' = o.stream
        /\ ret' = R("get_stream", 0, "resume", "none", r, o.result, o.exc, "none")
    /\ calls' = Resume("get_stream:gql")
    /\ UNCHANGED <<ctor, name, user_id, spade_url, pending, tasks, preempted>>

\* the scheduler calls check_online(): it suspends in get_stream's gql_request
check_online_call ==
    /\ ctor = "ready"
    /\ InFlight < MaxCalls
    /\ calls' = Suspend("check_online:gql")
    /\ ret' = R("check_online", 0, "call", "gql", NoResp, NoReturn, "none", "none")
    /\ UNCHANGED <<ctor, id, name, user_id, stream, spade_url, pending, tasks, preempted>>

\* Channel.check_online after get_stream has returned or raised
check_online_resume ==
    /\ calls["check_online:gql"] > 0
    /\ \E r \in GqlResponses :
        LET o == get_stream(r) IN
        /\ id' = o.id
        /\ stream' = o.stream
        /\ ret' = R("check_online", 0, "resume", "none", r,
                    IF o.exc # "none" THEN NoReturn
                    ELSE IF o.result = None THEN BoolV(FALSE) ELSE BoolV(TRUE),
                    o.exc, "none")
    /\ calls' = Resume("check_online:gql")
    /\ UNCHANGED <<ctor, name, user_id, spade_url, pending, tasks, preempted>>

(* --------------------------- get_spade_url ----------------------------- *)
\* re.search: the first place where the pattern matches, 0 if none;
\* hits[i] tells whether the pattern matches at place i of the text
Search(hits) ==
    IF \E i \in 1..Len(hits) : hits[i]
    THEN CHOOSE i \in 1..Len(hits) : hits[i] /\ \A j \in 1..(i - 1) : ~hits[j]
    ELSE 0

\* src="(https://static\.twitchcdn\.net/config/settings\.[0-9a-f]{32}\.js)"
MatchSettings(p) ==
    /\ Lower(p.attr) = "src"
    /\ p.url.host = "static.twitchcdn.net"
    /\ p.url.hexlen = 32
    /\ p.url.ext = "js"

\* "spade_url": ?"(https://video-edge-[.\w\-/]+\.ts)"
MatchSpade(p) ==
    /\ Lower(p.key) = "spade_url"
    /\ p.sep \in {"", " "}
    /\ p.url.prefix = "https://video-edge-"
    /\ p.url.ext = "ts"

\* get_spade_url from the point where the page has been read: the exception
\* raised (if any) and the settings script to fetch next
get_spade_url_step1(page) ==
    IF page.kind = "raise" THEN [exc |-> "RequestError", url |-> None]
    ELSE LET m == Search([i \in 1..Len(page.body) |-> MatchSettings(page.body[i])]) IN
         IF m = 0 THEN [exc |-> "MinerException: step #1", url |-> None]
         ELSE [exc |-> "none", url |-> page.body[m].url]

\* get_spade_url whose second failure carries the message of the first
get_spade_url_step2_as_step1(script) ==
    IF script.kind = "raise" THEN [exc |-> "RequestError", url |-> None]
    ELSE LET m == Search([i \in 1..Len(script.body) |-> MatchSpade(script.body[i])]) IN
         IF m = 0 THEN [exc |-> "MinerException: step #1", url |-> None]
         ELSE [exc |-> "none", url |-> script.body[m].url]

\* get_spade_url from the point where the settings script has been read:
\* the exception raised (if any) and the URL returned
get_spade_url_step2(script) ==
    IF script.kind = "raise" THEN [exc |-> "RequestError", url |-> None]
    ELSE LET m == Search([i \in 1..Len(script.body) |-> MatchSpade(script.body[i])]) IN
         IF m = 0 THEN [exc |-> "MinerException: step #2", url |-> None]
         ELSE [exc |-> "none", url |-> script.body[m].url]

(* ----------------------------- _send_watch ----------------------------- *)
\* Channel.url
url == <<"https://www.twitch.tv", "/", name>>

(* json.dumps, base64.b64encode and their inverses *)
\* the code points of the string literals of _encode_payload
Chars(w) ==
    CASE w = "event" -> <<101, 118, 101, 110, 116>>
      [] w = "minute-watched" -> <<109, 105, 110, 117, 116, 101, 45, 119, 97, 116, 99, 104, 101, 100>>
      [] w = "properties" -> <<112, 114, 111, 112, 101, 114, 116, 105, 101, 115>>
      [] w = "channel_id" -> <<99, 104, 97, 110, 110, 101, 108, 95, 105, 100>>
      [] w = "broadcast_id" -> <<98, 114, 111, 97, 100, 99, 97, 115, 116, 95, 105, 100>>
      [] w = "player" -> <<112, 108, 97, 121, 101, 114>>
      [] w = "site" -> <<115, 105, 116, 101>>
      [] w = "user_id" -> <<117, 115, 101, 114, 95, 105, 100>>

\* Python values that json.dumps is given: a str literal, a list, a dict
\* (its items in insertion order)
Lit(w) == [t |-> "lit", w |-> w]
List(items) == [t |-> "list", items |-> items]
Dict(items) == [t |-> "dict", items |-> items]

\* the decimal digits of a natural number, most significant first
RECURSIVE NatToDigits(_)
NatToDigits(n) == IF n < 10 THEN <<n>> ELSE NatToDigits(n \div 10) \o <<n % 10>>

\* the code points of a str: of a literal, or of a string of digits
CodePoints(v) ==
    IF v.t = "lit" THEN Chars(v.w) ELSE [i \in 1..Len(v.s) |-> 48 + v.s[i]]

\* json.dumps(v, separators=(",", ":")): the text as code points
RECURSIVE json_dumps(_)
RECURSIVE json_items(_, _)
json_dumps(v) ==
    CASE v.t = "int" -> LET d == NatToDigits(v.n) IN [i \in 1..Len(d) |-> 48 + d[i]]
      [] v.t \in {"str", "lit"} -> <<34>> \o CodePoints(v) \o <<34>>
      [] v.t = "list" -> <<91>> \o json_items(v.items, FALSE) \o <<93>>
      [] v.t = "dict" -> <<123>> \o json_items(v.items, TRUE) \o <<125>>
\* the items of a list or of a dict (key:value), separated by commas
json_items(items, keyed) ==
    IF items = <<>> THEN <<>>
    ELSE LET one == IF keyed
                    THEN json_dumps(Lit(items[1][1])) \o <<58>> \o json_dumps(items[1][2])
                    ELSE json_dumps(items[1])
         IN  IF Len(items) = 1 THEN one
             ELSE one \o <<44>> \o json_items(Tail(items), keyed)

\* the base64 alphabet: A-Z, a-z, 0-9, "+" and "/"
B64Alphabet ==
    <<65, 66, 67, 68, 69, 70, 71, 72, 73, 74, 75, 76, 77, 78, 79, 80,
      81, 82, 83, 84, 85, 86, 87, 88, 89, 90, 97, 98, 99, 100, 101, 102,
      103, 104, 105, 106, 107, 108, 109, 110, 111, 112, 113, 114, 115, 116, 117, 118,
      119, 120, 121, 122, 48, 49, 50, 51, 52, 53, 54, 55, 56, 57, 43, 47>>
\* the character of the base64 alphabet with value k
B64Char(k) == B64Alphabet[k + 1]

\* base64.b64encode: every three bytes make four characters; the last
\* group is filled with zero bits and padded with "="
b64encode(b) ==
    LET n == Len(b)
        char(i) ==
            LET g == 3 * ((i - 1) \div 4)
                p == (i - 1) % 4
            IN  IF p = 0 THEN B64Char(b[g + 1] \div 4)
                ELSE IF p = 1
                THEN B64Char((b[g + 1] % 4) * 16 + (IF g + 2 > n THEN 0 ELSE b[g + 2] \div 16))
                ELSE IF p = 2
                THEN IF g + 2 > n THEN 61
                     ELSE B64Char((b[g + 2] % 16) * 4 + (IF g + 3 > n THEN 0 ELSE b[g + 3] \div 64))
                ELSE IF g + 3 > n THEN 61 ELSE B64Char(b[g + 3] % 64)
    IN  [i \in 1..(4 * ((n + 2) \div 3)) |-> char(i)]

\* the value of a character of the base64 alphabet
B64Val(c) ==
    IF c >= 65 /\ c <= 90 THEN c - 65
    ELSE IF c >= 97 /\ c <= 122 THEN c - 97 + 26
    ELSE IF c >= 48 /\ c <= 57 THEN c - 48 + 52
    ELSE IF c = 43 THEN 62 ELSE 63

\* base64.b64decode: four characters make three bytes, fewer where padded
RECURSIVE b64decode(_)
b64decode(c) ==
    IF Len(c) < 4 THEN <<>>
    ELSE LET n1 == B64Val(c[1])
             n2 == B64Val(c[2])
             n3 == B64Val(c[3])
             n4 == B64Val(c[4])
             b1 == n1 * 4 + n2 \div 16
             b2 == (n2 % 16) * 16 + n3 \div 4
             b3 == (n3 % 4) * 64 + n4
         IN  IF c[3] = 61 THEN <<b1>>
             ELSE IF c[4] = 61 THEN <<b1, b2>>
             ELSE <<b1, b2, b3>> \o b64decode(SubSeq(c, 5, Len(c)))

\* json.loads of a text made of lists, objects, strings without escapes and
\* natural numbers: the value that starts at place i and the place after it
JsonText(b) == [t |-> "text", b |-> b]
RECURSIVE json_number(_, _, _)
json_number(b, i, n) ==
    IF i <= Len(b) /\ b[i] >= 48 /\ b[i] <= 57
    THEN json_number(b, i + 1, 10 * n + (b[i] - 48))
    ELSE [v |-> IntV(n), i |-> i]
RECURSIVE json_string(_, _, _)
json_string(b, i, acc) ==
    IF b[i] = 34 THEN [v |-> JsonText(acc), i |-> i + 1]
    ELSE json_string(b, i + 1, Append(acc, b[i]))
RECURSIVE json_value(_, _)
RECURSIVE json_elements(_, _, _, _)
json_value(b, i) ==
    IF b[i] = 34 THEN json_string(b, i + 1, <<>>)
    ELSE IF b[i] = 91 THEN json_elements(b, i + 1, FALSE, <<>>)
    ELSE IF b[i] = 123 THEN json_elements(b, i + 1, TRUE, <<>>)
    ELSE json_number(b, i, 0)
\* the elements of a list, or the members of an object, up to its end
json_elements(b, i, keyed, acc) ==
    IF b[i] \in {93, 125}
    THEN [v |-> [t |-> IF keyed THEN "dict" ELSE "list", items |-> acc], i |-> i + 1]
    ELSE IF b[i] = 44 THEN json_elements(b, i + 1, keyed, acc)
    ELSE IF keyed
    THEN LET k == json_string(b, i + 1, <<>>)
             e == json_value(b, k.i + 1)
         IN  json_elements(b, e.i, keyed, Append(acc, <<k.v.b, e.v>>))
    ELSE LET e == json_value(b, i)
         IN  json_elements(b, e.i, keyed, Append(acc, e.v))
json_loads(b) == json_value(b, 1).v

\* _encode_payload with the values of channel_id and user_id exchanged
_encode_payload_exchanged ==
    LET payload ==
            <<Dict(<< <<"event", Lit("minute-watched")>>,
                      <<"properties",
                        Dict(<< <<"channel_id", IntV(user_id)>>,
                                <<"broadcast_id", stream.broadcast_id>>,
                                <<"player", Lit("site")>>,
                                <<"user_id", IntV(id)>> >>)>> >>)>>
        json_event == json_dumps(List(payload))
    IN  [data |-> b64encode(json_event)]

\* Channel._encode_payload: the form data, given that the assertion holds
_encode_payload ==
    LET payload ==
            <<Dict(<< <<"event", Lit("minute-watched")>>,
                      <<"properties",
                        Dict(<< <<"channel_id", IntV(id)>>,
                                <<"broadcast_id", stream.broadcast_id>>,
                                <<"player", Lit("site")>>,
                                <<"user_id", IntV(user_id)>> >>)>> >>)>>
        json_event == json_dumps(List(payload))
    IN  [data |-> b64encode(json_event)]

Get(u) == [kind |-> "get", url |-> u]
Post(u, d) == [kind |-> "post", url |-> u, data |-> d]

\* _send_watch without the check of online
send_watch_call_unchecked ==
    /\ ctor = "ready"
    /\ InFlight < MaxCalls
    /\ IF spade_url = None
       THEN /\ calls' = Suspend("_send_watch:page")
            /\ ret' = [R("_send_watch", 0, "call", "page", NoResp, NoReturn,
                         "none", "none") EXCEPT !.req = Get(url)]
       ELSE IF stream = None
       THEN /\ calls' = calls
            /\ ret' = R("_send_watch", 0, "call", "none", NoResp, NoReturn,
                        "AssertionError", "none")
       ELSE /\ calls' = Suspend("_send_watch:post")
            /\ ret' = [R("_send_watch", 0, "call", "post", NoResp, NoReturn,
                         "none", "none") EXCEPT !.req = Post(spade_url, _encode_payload)]
    /\ UNCHANGED <<ctor, id, name, user_id, stream, spade_url, pending, tasks, preempted>>

\* the scheduler calls _send_watch(): it returns at once when offline,
\* suspends in the page fetch when no spade URL is cached, and in the POST
\* otherwise
send_watch_call ==
    /\ ctor = "ready"
    /\ IF ~online
       THEN /\ calls' = calls
            /\ ret' = R("_send_watch", 0, "call", "none", NoResp, None, "none", "none")
       ELSE /\ InFlight < MaxCalls
            /\ IF spade_url = None
               THEN /\ calls' = Suspend("_send_watch:page")
                    /\ ret' = [R("_send_watch", 0, "call", "page", NoResp, NoReturn,
                                 "none", "none") EXCEPT !.req = Get(url)]
               ELSE /\ calls' = Suspend("_send_watch:post")
                    /\ ret' = [R("_send_watch", 0, "call", "post", NoResp, NoReturn,
                                 "none", "none") EXCEPT !.req = Post(spade_url, _encode_payload)]
    /\ UNCHANGED <<ctor, id, name, user_id, stream, spade_url, pending, tasks, preempted>>

\* the page has been read: get_spade_url raises, or fetches the settings script
send_watch_page ==
    /\ calls["_send_watch:page"] > 0
    /\ \E page \in {FetchRaise} \cup {Text(b) : b \in Pages} :
        LET o == get_spade_url_step1(page) IN
        IF o.exc # "none"
        THEN /\ calls' = Resume("_send_watch:page")
             /\ ret' = R("_send_watch", 0, "page", "none", page, NoReturn, o.exc, "none")
        ELSE /\ calls' = Move("_send_watch:page", "_send_watch:script")
             /\ ret' = [R("_send_watch", 0, "page", "script", page, NoReturn, "none", "none")
                        EXCEPT !.req = Get(o.url)]
    /\ UNCHANGED <<ctor, id, name, user_id, stream, spade_url, pending, tasks, preempted>>

\* the settings script has been read: get_spade_url raises, or returns the
\* URL, which is stored; then the payload is built and the POST is sent
send_watch_script ==
    /\ calls["_send_watch:script"] > 0
    /\ \E script \in {FetchRaise} \cup {Text(b) : b \in Scripts} :
        LET o == get_spade_url_step2(script) IN
        IF o.exc # "none"
        THEN /\ calls' = Resume("_send_watch:script")
             /\ spade_url' = spade_url
             /\ ret' = R("_send_watch", 0, "script", "none", script, NoReturn, o.exc, "none")
        ELSE /\ spade_url' = o.url
             /\ IF stream = None
                THEN \* assert self.stream is not None
                     /\ calls' = Resume("_send_watch:script")
                     /\ ret' = R("_send_watch", 0, "script", "none", script, NoReturn,
                                 "AssertionError", "none")
                ELSE /\ calls' = Move("_send_watch:script", "_send_watch:post")
                     /\ ret' = [R("_send_watch", 0, "script", "post", script, NoReturn,
                                  "none", "none") EXCEPT !.req = Post(o.url, _encode_payload)]
    /\ UNCHANGED <<ctor, id, name, user_id, stream, pending, tasks, preempted>>

\* _send_watch that takes every 2xx status for success
send_watch_post_any_2xx ==
    /\ calls["_send_watch:post"] > 0
    /\ \E response \in {FetchRaise} \cup {Status(n) : n \in Statuses} :
        ret' = IF response.kind = "raise"
               THEN R("_send_watch", 0, "post", "none", response, NoReturn, "RequestError", "none")
               ELSE R("_send_watch", 0, "post", "none", response,
                      BoolV(response.code \div 100 = 2), "none", "none")
    /\ calls' = Resume("_send_watch:post")
    /\ UNCHANGED <<ctor, id, name, user_id, stream, spade_url, pending, tasks, preempted>>

\* the response to the POST has arrived, or the POST has failed
send_watch_post ==
    /\ calls["_send_watch:post"] > 0
    /\ \E response \in {FetchRaise} \cup {Status(n) : n \in Statuses} :
        ret' = IF response.kind = "raise"
               THEN R("_send_watch", 0, "post", "none", response, NoReturn, "RequestError", "none")
               ELSE R("_send_watch", 0, "post", "none", response,
                      BoolV(response.code = 204), "none", "none")
    /\ calls' = Resume("_send_watch:post")
    /\ UNCHANGED <<ctor, id, name, user_id, stream, spade_url, pending, tasks, preempted>>

(* ------------------------------- Next ---------------------------------- *)
Next ==
    \/ Channel_init_resume
    \/ set_online
    \/ set_offline
    \/ \E t \in Tasks : online_delay_start(t)
    \/ \E t \in Tasks : online_delay_wake(t)
    \/ \E t \in Tasks : online_delay_resume(t)
    \/ \E t \in Tasks : online_delay_cancelled(t)
    \/ get_stream_call
    \/ get_stream_resume
    \/ check_online_call
    \/ check_online_resume
    \/ send_watch_call
    \/ send_watch_page
    \/ send_watch_script
    \/ send_watch_post

Spec == Init /\ [][Next]_vars

(* ------------------- watch pings for drawn ids ------------------------- *)
\* the channel and broadcast ids drawn are 1..MaxId
MaxId == 10
Ids == 1..MaxId
\* the user ids drawn are the first MaxUsers multiples of UserId
MaxUsers == 2
UserIds == {UserId * k : k \in 1..MaxUsers}
\* an id as a platform response holds it: a string of digits
IdStr(n) == StrV(NatToDigits(n))
\* data["user"] of a response for a live channel with these ids and tags
UserWith(cid, sid, tags) ==
    [UserLive EXCEPT !.id = IdStr(cid), !.stream.id = IdStr(sid), !.stream.tags = tags]
\* a directory listing entry with these ids and tags
DirectoryWith(cid, sid, tags) ==
    [broadcaster |-> [id |-> IdStr(cid), displayName |-> "chan"],
     id |-> IdStr(sid), viewersCount |-> 0,
     tags |-> tags,
     game |-> GameData, title |-> ""]

\* Channel.__init__ once its get_stream has returned for a response with
\* user u, who is live
Channel_init_done(u) ==
    /\ ctor = "ready"
    /\ id = int(u.id)
    /\ name = "chan"
    /\ spade_url = None
    /\ stream = Stream(u)
    /\ pending = NoTask
    /\ ret = R("__init__", 0, "resume", "none", RespJson(u), Stream(u), "none", "none")

\* an online channel of a client, built from a directory entry or from a
\* response, for every combination of channel, broadcast and user id
InitPayload ==
    /\ tasks = [t \in Tasks |-> "none"]
    /\ calls = [a \in Awaits |-> 0]
    /\ preempted = [t \in Tasks |-> "no"]
    /\ user_id \in UserIds
    /\ \E cid \in Ids, sid \in Ids :
        \/ Channel_from_directory(DirectoryWith(cid, sid, <<>>))
        \/ Channel_init_done(UserWith(cid, sid, <<>>))

\* the scheduler sends watch pings
NextPayload ==
    \/ send_watch_call
    \/ send_watch_page
    \/ send_watch_script
    \/ send_watch_post

SpecPayload == InitPayload /\ [][NextPayload]_vars

(* --------------------- streams for drawn tag lists --------------------- *)
\* the tag lists drawn have at most MaxTags tags
MaxTags == 3
TagLists ==
    UNION {[1..n -> {Tag(DROPS_ENABLED_TAG), Tag(OtherTag)}] : n \in 0..MaxTags}

\* a channel built from a directory entry, or by __init__ from a response,
\* for every tag list
InitStream ==
    /\ tasks = [t \in Tasks |-> "none"]
    /\ calls = [a \in Awaits |-> 0]
    /\ preempted = [t \in Tasks |-> "no"]
    /\ user_id = UserId
    /\ \E tags \in TagLists :
        \/ Channel_from_directory(DirectoryWith(MaxId, 1, tags))
        \/ Channel_init_done(UserWith(MaxId, 1, tags))

\* get_stream resumes with a response for a live channel, for every tag list
get_stream_resume_live ==
    /\ calls["get_stream:gql"] > 0
    /\ \E tags \in TagLists :
        LET r == RespJson(UserWith(1, MaxId, tags))
            o == get_stream(r)
        IN  /\ id' = o.id
            /\ stream' = o.stream
            /\ ret' = R("get_stream", 0, "resume", "none", r, o.result, o.exc, "none")
    /\ calls' = Resume("get_stream:gql")
    /\ UNCHANGED <<ctor, name, user_id, spade_url, pending, tasks, preempted>>

NextStream ==
    \/ get_stream_call
    \/ get_stream_resume
    \/ get_stream_resume_live

SpecStream == InitStream /\ [][NextStream]_vars

(* ------------------------------ claims --------------------------------- *)
\* the steps in which get_stream finishes
Reconciled == ret.step = "resume" /\ ret.op \in {"__init__", "get_stream", "check_online", "_online_delay"}

\* C1: set_offline() can be called in every state of a constructed channel,
\* raises nothing, and right after it online and pending_online are false.
C1_SetOfflineForcesOffline ==
    /\ ctor = "ready" => ENABLED set_offline
    /\ ret.op = "set_offline" => ret.exc = "none" /\ ~online /\ ~pending_online

\* set_offline() has run while the pending reference held a task that had
\* already failed
C1_Witness ==
    ret.op = "set_offline" /\ ret.info = "failed" /\ ~online /\ ~pending_online

\* C2: a confirmation task that set_offline() cancelled while it had not
\* finished never resumes from its query: it takes no step but the delivery
\* of its cancellation, and that step writes no field of the channel.
C2_CancelledTaskNeverWrites ==
    /\ [](\A t \in Tasks : preempted[t] # "no" => tasks[t] \in {"cancelling", "cancelled"})
    /\ [][\A t \in Tasks :
            (preempted[t] # "no" /\ ret'.op = "_online_delay" /\ ret'.who = t)
                => /\ ret'.step = "cancelled"
                   /\ UNCHANGED <<id, stream, pending, spade_url>>]_vars

\* a task cancelled in its query has received its cancellation after a
\* later set_online() made another task, and the channel is still offline
C2_Witness ==
    /\ ret.op = "_online_delay" /\ ret.step = "cancelled" /\ ret.info = "query"
    /\ pending_online /\ pending # ret.who /\ ~online

\* C3: online and pending_online are never both true.
C3_OneOfThreeStates == ~(online /\ pending_online)

\* C4: at most one confirmation task that has neither finished nor been
\* cancelled exists, and set_online() on a channel that is online or pending
\* creates no task and changes no field.
C4_SetOnlineIdempotent ==
    /\ [](Cardinality({t \in Tasks : tasks[t] \in Unfinished}) <= 1)
    /\ []((ret.op = "set_online" /\ ret.info = "created") =>
            pending_online /\ tasks[pending] = "new")
    /\ [][(ret'.op = "set_online" /\ (online \/ pending_online))
            => UNCHANGED <<ctor, id, name, user_id, stream, spade_url, pending, tasks, calls>>]_vars

\* set_online() has been called a second time while the first call's
\* confirmation task was suspended in its query
C4_Witness ==
    /\ ret.op = "set_online" /\ ret.info = "noop"
    /\ pending_online /\ tasks[pending] = "query"
    /\ Cardinality({t \in Tasks : tasks[t] # "none"}) = 1

\* C5: a confirmation task whose reconcile has finished, by returning or by
\* raising, no longer is the pending task.
C5_PendingClearedWhateverOutcome ==
    /\ \A t \in Tasks : tasks[t] \in {"done", "failed"} => pending # t
    /\ (ret.op = "_online_delay" /\ ret.step = "resume") => ~pending_online

\* C6: right after a reconcile whose response has a user, the channel is
\* online with the response's id and a snapshot of the response's stream if
\* the response has a stream, and offline if it has none.
C6_ReconcileFollowsResponse ==
    (Reconciled /\ ret.resp.kind = "json" /\ ret.resp.data.user # None) =>
        LET u == ret.resp.data.user IN
        IF u.stream # None
        THEN /\ online
             /\ id = DigitsToNat(u.id.s)
             /\ stream.broadcast_id = IntV(DigitsToNat(u.stream.id.s))
             /\ stream.viewer_count = u.stream.viewersCount
             /\ stream.drops_enabled =
                    (Tag(DROPS_ENABLED_TAG) \in {u.stream.tags[i] : i \in 1..Len(u.stream.tags)})
             /\ stream.title = u.broadcastSettings.title
             /\ (stream.game = None) = (u.broadcastSettings.game = None)
        ELSE ~online /\ id = DigitsToNat(u.id.s)

\* the confirmation task's reconcile has found a live stream
C6_Witness ==
    /\ ret.op = "_online_delay" /\ ret.step = "resume" /\ ret.resp = RespJson(UserLive)
    /\ id = 12 /\ online /\ stream.broadcast_id = IntV(45) /\ stream.drops_enabled

\* C7: a reconcile whose response says that there is no such user raises
\* nothing, leaves the channel offline and returns the absent stream.
C7_NoSuchUserIsNegative ==
    (Reconciled /\ ret.resp = RespJson(None)) =>
        /\ ret.exc = "none"
        /\ ~online
        /\ ret.op = "get_stream" => ret.result = None

\* C8: check_online() returns true only if the response to its own query
\* reported a live stream.
C8_IsLiveFromOwnQuery ==
    (ret.op = "check_online" /\ ret.step = "resume" /\ ret.result = BoolV(TRUE)) =>
        /\ ret.resp.kind = "json"
        /\ ret.resp.data.user # None
        /\ ret.resp.data.user.stream # None

\* C9: a _send_watch() called while the channel is offline sends no request,
\* raises nothing, starts no coroutine and changes no field of the channel.
C9_OfflinePingIsNoOp ==
    [][(ret'.op = "_send_watch" /\ ret'.step = "call" /\ ~online) =>
          /\ ret'.io = "none" /\ ret'.req.kind = "none" /\ ret'.exc = "none"
          /\ UNCHANGED <<ctor, id, name, user_id, stream, spade_url, pending, tasks, calls>>]_vars

\* an offline ping has returned on a channel that has a cached endpoint and
\* a confirmation pending
C9_Witness ==
    /\ ret.op = "_send_watch" /\ ret.step = "call" /\ ret.io = "none"
    /\ ~online /\ spade_url # None /\ pending_online

\* C10: once an endpoint is cached, no _send_watch() called afterwards
\* fetches the page or the script, and the cached endpoint stays the same.
C10_DiscoveredOnceForAll ==
    [][spade_url # None =>
          /\ spade_url' = spade_url
          /\ (ret'.op = "_send_watch" /\ ret'.step = "call") => ret'.io \notin {"page", "script"}]_vars

\* C11: the spade URL is discovered at most once per channel and has no
\* concurrent writers: whatever the interleaving of watch pings, a discovery
\* that succeeds finds the cache still empty, and a cached URL is never
\* replaced.
C11_DiscoveredAtMostOnce ==
    [][/\ (/\ ret'.op = "_send_watch" /\ ret'.step = "script"
           /\ ret'.exc \notin {"RequestError", "MinerException: step #2"})
            => spade_url = None
       /\ spade_url # None => spade_url' = spade_url]_vars

\* C12: discovery raises the step #1 error exactly when the page that was read
\* matches the settings pattern nowhere, and then fetches no script; it raises
\* the step #2 error exactly when the script that was read matches the spade
\* pattern nowhere; each of the two errors comes from its own step only, and
\* a text with a match raises neither.
C12_ExtractionErrorsByStep ==
    /\ (ret.op = "_send_watch" /\ ret.step = "page" /\ ret.resp.kind = "text") =>
            IF \E i \in 1..Len(ret.resp.body) : MatchSettings(ret.resp.body[i])
            THEN ret.exc = "none" /\ ret.io = "script" /\ ret.req.kind = "get"
            ELSE /\ ret.exc = "MinerException: step #1"
                 /\ ret.io = "none" /\ ret.req.kind = "none"
    /\ (ret.op = "_send_watch" /\ ret.step = "script" /\ ret.resp.kind = "text") =>
            IF \E i \in 1..Len(ret.resp.body) : MatchSpade(ret.resp.body[i])
            THEN ret.exc \notin {"MinerException: step #1", "MinerException: step #2"}
            ELSE ret.exc = "MinerException: step #2" /\ ret.io = "none"
    /\ ret.exc = "MinerException: step #1" => ret.op = "_send_watch" /\ ret.step = "page"
    /\ ret.exc = "MinerException: step #2" => ret.op = "_send_watch" /\ ret.step = "script"
\* the page that was read has a script tag, of another name: step #1 fails
C12_Witness ==
    /\ ret.op = "_send_watch" /\ ret.step = "page"
    /\ ret.exc = "MinerException: step #1"
    /\ ret.resp.kind = "text" /\ ret.resp.body # <<>>
    /\ ret.io = "none"

\* the step of _send_watch at which get_spade_url raised
DiscoveryFailed(r) ==
    /\ r.op = "_send_watch" /\ r.step \in {"page", "script"}
    /\ r.exc \in {"RequestError", "MinerException: step #1", "MinerException: step #2"}

\* C13: when discovery fails inside a watch ping, the ping ends with that
\* exception: it fetches nothing more and posts nothing, the cached spade URL
\* is None afterwards, the stream and the pending task are as before; and a
\* ping on an online channel with no cached spade URL starts by fetching the
\* channel page.
C13_FailedDiscoveryLeavesNoTrace ==
    /\ []((ret.op = "_send_watch" /\ ret.step = "call" /\ online /\ spade_url = None)
            => ret.io = "page" /\ ret.req = Get(url))
    /\ [][DiscoveryFailed(ret') =>
            /\ ret'.result = NoReturn
            /\ ret'.io = "none" /\ ret'.req.kind = "none"
            /\ calls' = Resume("_send_watch:" \o ret'.step)
            /\ spade_url' = None
            /\ UNCHANGED <<id, stream, pending, tasks>>]_vars

\* what json.loads gives for a Python value: an int as it is, a str as text
Loaded(v) == IF v.t = "int" THEN v ELSE JsonText(CodePoints(v))

\* C14: for every combination of channel, broadcast and user id, the form
\* value a watch ping posts decodes (base64, then JSON) to a list of one
\* record, with event "minute-watched" and the properties channel_id = the
\* channel's id, broadcast_id = that of the channel's stream when the payload
\* is built, player = "site", user_id = the client's user id.
C14_PayloadRoundTrip ==
    ret.req.kind = "post" =>
        json_loads(b64decode(ret.req.data.data))
            = [t |-> "list", items |-> <<
                [t |-> "dict", items |-> <<
                    <<Chars("event"), JsonText(Chars("minute-watched"))>>,
                    <<Chars("properties"),
                      [t |-> "dict", items |-> <<
                          <<Chars("channel_id"), IntV(id)>>,
                          <<Chars("broadcast_id"), Loaded(stream.broadcast_id)>>,
                          <<Chars("player"), JsonText(Chars("site"))>>,
                          <<Chars("user_id"), IntV(user_id)>> >>]>> >>]>>]
\* a payload built after discovery, for a two-digit channel id, a one-digit
\* broadcast id that is a string, and the second user id
C14_Witness ==
    /\ ret.op = "_send_watch" /\ ret.step = "script" /\ ret.req.kind = "post"
    /\ id = MaxId /\ stream.broadcast_id = IdStr(1) /\ user_id = 2 * UserId

\* C16: a Stream built from a directory entry, and a Stream built from a
\* polled response, has drops_enabled true exactly when the reserved tag id
\* is among the ids of the tags it was given; for no tags it is false.
C16_DropsEnabledIffTagged ==
    /\ ret.op = "from_directory" =>
            /\ stream.drops_enabled
                    <=> DROPS_ENABLED_TAG \in {ret.resp.tags[i].id : i \in DOMAIN ret.resp.tags}
            /\ ret.resp.tags = <<>> => ~stream.drops_enabled
    /\ (/\ ret.op \in {"__init__", "get_stream"} /\ ret.step = "resume"
        /\ ret.resp.kind = "json" /\ ret.resp.data.user # None
        /\ ret.resp.data.user.stream # None) =>
            LET tags == ret.resp.data.user.stream.tags IN
            /\ stream.drops_enabled <=> DROPS_ENABLED_TAG \in {tags[i].id : i \in DOMAIN tags}
            /\ tags = <<>> => ~stream.drops_enabled
\* a polled response whose reserved tag is the second of three replaces a
\* stream without the reserved tag
C16_Witness ==
    /\ ret.op = "get_stream" /\ ret.step = "resume" /\ ret.resp.kind = "json"
    /\ ret.resp.data.user # None /\ ret.resp.data.user.stream # None
    /\ ret.resp.data.user.stream.tags
            = <<Tag(OtherTag), Tag(DROPS_ENABLED_TAG), Tag(OtherTag)>>
    /\ stream.drops_enabled

\* C15: a watch ping called on an online channel with a cached spade URL
\* sends one POST, to that URL, and nothing else; when the response arrives
\* the ping returns True for status 204 and False for any other status, and
\* it ends there, without another request.
C15_OnePostTrueIff204 ==
    /\ []((ret.op = "_send_watch" /\ ret.step = "call" /\ online /\ spade_url # None)
            => ret.io = "post" /\ ret.req.kind = "post" /\ ret.req.url = spade_url)
    /\ []((ret.op = "_send_watch" /\ ret.step = "post")
            => /\ ret.io = "none" /\ ret.req.kind = "none"
               /\ ret.resp.kind = "status" => ret.result = BoolV(ret.resp.code = 204))
    /\ [][(ret'.op = "_send_watch" /\ ret'.step = "call" /\ online /\ spade_url # None)
            => calls' = Suspend("_send_watch:post")]_vars
    /\ [][(ret'.op = "_send_watch" /\ ret'.step = "post")
            => calls' = Resume("_send_watch:post")]_vars
\* the POST of a ping got status 200: the ping returned False
C15_Witness ==
    /\ ret.op = "_send_watch" /\ ret.step = "post"
    /\ ret.resp = Status(200) /\ ret.result = BoolV(FALSE)
    /\ online /\ spade_url # None /\ InFlight = 0

\* C17: whenever a watch ping builds its payload the channel has a stream:
\* the assertion of _encode_payload never fails, and a ping sends its POST
\* only while the channel is online.
C17_PayloadBuiltOnlyOnline ==
    /\ ret.op = "_send_watch" => ret.exc # "AssertionError"
    /\ (ret.op = "_send_watch" /\ ret.io = "post") => online

\* C18: set_offline() wins over every reconciliation whose query was issued
\* before it.  A query of the scheduler that resumes in the very step after
\* set_offline() was issued before it, so its response leaves the channel
\* offline.
C18_SetOfflineWinsOverEarlierQuery ==
    [][(/\ ret.op = "set_offline"
        /\ ret'.op \in {"get_stream", "check_online"} /\ ret'.step = "resume")
            => ~online']_vars

\* the ids the platform hands out: those of the users of the responses and
\* those of the broadcasters of the directory entries
PlatformIds ==
    {int(r.data.user.id) : r \in {q \in GqlResponses : q.kind = "json" /\ q.data.user # None}}
        \cup {int(d.broadcaster.id) : d \in DirectoryRecords}

\* C19: an online channel has an id that was read from a response or from a
\* directory entry, never the 0 that __init__ starts with; and the channel_id
\* that a posted payload decodes to is not 0.
C19_OnlineHasPlatformId ==
    /\ online => id \in PlatformIds /\ id # 0
    /\ ret.req.kind = "post" =>
            json_loads(b64decode(ret.req.data.data)).items[1].items[2][2].items[1]
                \notin {<<Chars("channel_id"), IntV(0)>>}
\* __init__ has found the channel live: the 0 has been replaced
C19_Witness ==
    /\ ret.op = "__init__" /\ ret.step = "resume" /\ ctor = "ready"
    /\ online /\ id = 12

\* C20: a get_stream() whose query hands back an empty response changes
\* nothing: id, stream, the cached spade URL and the pending task are as
\* before (inside _online_delay, which clears the pending task itself once
\* get_stream has returned: id, stream and the cached spade URL), and the
\* call returns the stream the channel already had.
C20_EmptyResponseChangesNothing ==
    [][(ret'.step = "resume" /\ ret'.resp = RespEmpty) =>
        /\ ret'.exc = "none"
        /\ UNCHANGED <<id, stream, spade_url>>
        /\ ret'.op \in {"__init__", "get_stream", "check_online"} => UNCHANGED pending
        /\ ret'.op = "get_stream" => ret'.result = stream]_vars
\* an empty response on an online channel with a cached spade URL
C20_Witness ==
    /\ ret.op = "get_stream" /\ ret.step = "resume" /\ ret.resp = RespEmpty
    /\ online /\ ret.result = stream /\ spade_url # None /\ id = 34
====
